---- MODULE Spec2Model ----
(***************************************************************************)
(* WrapBuffer::Deque (src/deque.cpp): a resizable double-ended queue kept  *)
(* in one circular int buffer.  A Deque object is a record of its fields   *)
(* b, e, size, capacity, array; `alloc' says whether array is non-null.    *)
(* The member initialisers of the constructors run in the order in which   *)
(* they are written (b, e, size, capacity, array), the order of the        *)
(* default constructor at src/deque.cpp:47.                                *)
(***************************************************************************)
EXTENDS Integers, Sequences, FiniteSets, TLC

\* ---- bounds of the model ------------------------------------------------
MaxSize == 3         \* no operation is taken that would hold more elements
MaxCap == 4          \* nor one that would need a larger buffer
MaxInit == 2         \* longest sequence handed to Deque(int*, unsigned)
MaxVal == 2          \* pushed / constructed values are 1..MaxVal

Val == 1..MaxVal
\* content of a slot of `new int[n]' that was never written
Junk == -1

\* dq[k]: the two Deque objects of the program (dq[2] serves as the right-hand
\* side and the source of copies); ref[k]: what a list-based double-ended
\* queue holds after the same calls; last: the last call, the size and
\* capacity it started from, what it returned and what the reference
\* returned; halted: a store outside a buffer has happened, after which the
\* behaviour of the program is undefined and no further call is followed
VARIABLES dq, ref, last, halted
vars == <<dq, ref, last, halted>>

Obj == {1, 2}
Seqs(n) == UNION {[1..m -> Val] : m \in 0..n}

\* ---- the Deque object ---------------------------------------------------
NewArray(n) == [i \in 0..(n - 1) |-> Junk]

\* Deque::Deque()
Deque == [b |-> 0, e |-> 0, size |-> 0, capacity |-> 0,
          array |-> NewArray(0), alloc |-> FALSE]

\* Deque::Deque(int* array_, unsigned int size_): e is size_, never reduced
DequeFrom(array_) ==
  LET size_ == Len(array_) IN
  [b |-> 0, e |-> size_, size |-> size_, capacity |-> size_,
   array |-> [i \in 0..(size_ - 1) |-> array_[i + 1]], alloc |-> TRUE]

\* Deque::Size, Deque::Empty, Deque::Capacity
Size(d) == d.size
Empty(d) == d.size = 0
Capacity(d) == d.capacity

\* operator[] checking only for the empty Deque
Throws_emptyOnly(d, pos) == d.size = 0

\* operator[]: the out_of_range condition and the element read
Throws(d, pos) == d.size = 0 \/ pos >= d.size
Index(d, pos) == d.array[(d.b + pos) % d.capacity]

\* the physical slot operator[] reads for pos
Slot(d, pos) == (d.b + pos) % d.capacity

\* operator<<: the elements d[0] .. d[Size()-1] in order
Contents(d) == [i \in 1..Size(d) |-> Index(d, i - 1)]

\* Deque::Deque(const Deque& rhs)
DequeCopy(rhs) ==
  [b |-> 0, e |-> rhs.size, size |-> rhs.size, capacity |-> rhs.size,
   array |-> [i \in 0..(rhs.size - 1) |-> Index(rhs, i)],
   alloc |-> rhs.size # 0]

\* reallocate copying slot i to slot i, without unwrapping from b
reallocate_flat(d, new_capacity) ==
  IF new_capacity = 0
  THEN [b |-> 0, e |-> 0, size |-> 0, capacity |-> 0,
        array |-> NewArray(0), alloc |-> FALSE]
  ELSE [b |-> 0, e |-> d.size, size |-> d.size, capacity |-> new_capacity,
        array |-> [i \in 0..(new_capacity - 1) |->
                     IF i < d.size THEN d.array[i] ELSE Junk],
        alloc |-> TRUE]

\* Deque::reallocate(int new_capacity)
reallocate(d, new_capacity) ==
  IF new_capacity = 0
  THEN [b |-> 0, e |-> 0, size |-> 0, capacity |-> 0,
        array |-> NewArray(0), alloc |-> FALSE]
  ELSE [b |-> 0, e |-> d.size, size |-> d.size, capacity |-> new_capacity,
        array |-> [i \in 0..(new_capacity - 1) |->
                     IF i < d.size THEN d.array[(d.b + i) % d.capacity]
                     ELSE Junk],
        alloc |-> TRUE]

\* growing by one slot instead of doubling
GrowTo_plusOne(d) == d.capacity + 1

\* the capacity a push grows to
GrowTo(d) == IF d.capacity # 0 THEN d.capacity * 2 ELSE 1

\* the state after the size == capacity test of both pushes
Grown(d) == IF d.size = d.capacity THEN reallocate(d, GrowTo(d)) ELSE d

\* Push_back stores through array[e] without reducing e: the store is
\* outside the buffer when e is not one of its indices
StoreOutside(d) == Grown(d).e \notin DOMAIN Grown(d).array

\* Deque::Push_back(int val); a store outside the buffer does not reach it
Push_back(d, val) ==
  LET g == Grown(d) IN
  [g EXCEPT !.array = IF g.e \in DOMAIN g.array
                      THEN [g.array EXCEPT ![g.e] = val] ELSE g.array,
            !.e = (g.e + 1) % g.capacity,
            !.size = g.size + 1]

\* the shrink test of both pops
ShrinkDue(d) == d.size = d.capacity \div 4

\* shrinking to a quarter instead of a half
Shrunk_quarter(d) == IF ShrinkDue(d) THEN reallocate(d, d.capacity \div 4) ELSE d

Shrunk(d) == IF ShrinkDue(d) THEN reallocate(d, d.capacity \div 2) ELSE d

\* Pop_back testing for the shrink before the empty Deque, as Pop_front does
Pop_back_shrinkFirst(d) ==
  LET s == Shrunk(d) IN
  IF s.size = 0 THEN s
  ELSE [s EXCEPT !.e = (s.e - 1 + s.capacity) % s.capacity,
                 !.size = s.size - 1]

\* Deque::Pop_back(): the state after, and the value returned
Pop_back(d) ==
  IF d.size = 0 THEN d
  ELSE LET s == Shrunk(d) IN
       [s EXCEPT !.e = (s.e - 1 + s.capacity) % s.capacity,
                 !.size = s.size - 1]
Pop_backRet(d) ==
  IF d.size = 0 THEN 0
  ELSE LET s == Shrunk(d) IN s.array[(s.e - 1 + s.capacity) % s.capacity]

\* Push_front testing array == nullptr before it grows the buffer
Push_front_nullFirst(d, val) ==
  IF ~d.alloc
  THEN [b |-> 0, e |-> 1, size |-> 1, capacity |-> 1,
        array |-> [i \in 0..0 |-> val], alloc |-> TRUE]
  ELSE LET g == Grown(d)
           nb == (g.b - 1 + g.capacity) % g.capacity
       IN [g EXCEPT !.b = nb, !.array = [g.array EXCEPT ![nb] = val],
                    !.size = g.size + 1]

\* Deque::Push_front(int val)
Push_front(d, val) ==
  LET g == Grown(d) IN
  IF ~g.alloc
  THEN [b |-> 0, e |-> 1, size |-> 1, capacity |-> 1,
        array |-> [i \in 0..0 |-> val], alloc |-> TRUE]
  ELSE LET nb == (g.b - 1 + g.capacity) % g.capacity IN
       [g EXCEPT !.b = nb, !.array = [g.array EXCEPT ![nb] = val],
                 !.size = g.size + 1]

\* Deque::Pop_front(): the shrink test comes before the empty test
Pop_front(d) ==
  LET s == Shrunk(d) IN
  IF s.size = 0 THEN s
  ELSE [s EXCEPT !.b = (s.b + 1) % s.capacity, !.size = s.size - 1]

\* the value read after b has moved on
Pop_frontRet_afterStep(d) ==
  LET s == Shrunk(d) IN
  IF s.size = 0 THEN 0 ELSE s.array[(s.b + 1) % s.capacity]

\* Deque::Pop_front(): the value returned, read before b moves on
Pop_frontRet(d) ==
  LET s == Shrunk(d) IN
  IF s.size = 0 THEN 0 ELSE s.array[s.b]

\* Clear() resetting the count only
Clear_sizeOnly(d) ==
  [d EXCEPT !.array = [k \in DOMAIN d.array |->
                         IF \E i \in 0..(d.size - 1) : (d.b + i) % d.capacity = k
                         THEN 0 ELSE d.array[k]],
            !.size = 0]

\* Deque::Clear()
Clear(d) ==
  [d EXCEPT !.array = [k \in DOMAIN d.array |->
                         IF \E i \in 0..(d.size - 1) : (d.b + i) % d.capacity = k
                         THEN 0 ELSE d.array[k]],
            !.size = 0, !.b = 0, !.e = 0]

\* Deque::swap(Deque& other): the pair (this, other) after the exchange
swap(d, other) == <<other, d>>

\* Deque::operator=(Deque rhs): rhs is a copy of the source, swapped in
Assign(d, src) == swap(d, DequeCopy(src))[1]

\* the copy loop reading rhs from slot 0 on, without unwrapping from rhs.b
RECURSIVE AppendLoop_flat(_, _, _, _)
AppendLoop_flat(arr, d, rhs, i) ==
  IF i >= rhs.size THEN arr
  ELSE AppendLoop_flat([arr EXCEPT ![(d.e + i) % d.capacity] = rhs.array[i]],
                       d, rhs, i + 1)

\* the copy loop of operator+= for a right-hand side that is another object
RECURSIVE AppendLoop(_, _, _, _)
AppendLoop(arr, d, rhs, i) ==
  IF i >= rhs.size THEN arr
  ELSE AppendLoop([arr EXCEPT ![(d.e + i) % d.capacity] =
                                 rhs.array[(rhs.b + i) % rhs.capacity]],
                  d, rhs, i + 1)

\* operator+= growing by the policy of the pushes instead of to totalSize
PlusEq_doubling(d, rhs) ==
  IF Empty(rhs) THEN d
  ELSE LET totalSize == d.size + rhs.size
           g == IF totalSize > d.capacity THEN reallocate(d, GrowTo(d)) ELSE d
       IN [g EXCEPT !.array = AppendLoop(g.array, g, rhs, 0),
                    !.size = totalSize,
                    !.e = (g.e + rhs.size) % g.capacity]

\* operator+= advancing e without reducing it modulo capacity
PlusEq_plainEnd(d, rhs) ==
  IF Empty(rhs) THEN d
  ELSE LET totalSize == d.size + rhs.size
           g == IF totalSize > d.capacity THEN reallocate(d, totalSize) ELSE d
       IN [g EXCEPT !.array = AppendLoop(g.array, g, rhs, 0),
                    !.size = totalSize,
                    !.e = g.e + rhs.size]

\* Deque::operator+=(const Deque& rhs), rhs another object
PlusEq(d, rhs) ==
  IF Empty(rhs) THEN d
  ELSE LET totalSize == d.size + rhs.size
           g == IF totalSize > d.capacity THEN reallocate(d, totalSize) ELSE d
       IN [g EXCEPT !.array = AppendLoop(g.array, g, rhs, 0),
                    !.size = totalSize,
                    !.e = (g.e + rhs.size) % g.capacity]

\* the copy loop of operator+= when rhs is *this: it reads the buffer it
\* is writing, through the b and capacity reallocate has just set
RECURSIVE SelfAppendLoop(_, _, _)
SelfAppendLoop(arr, d, i) ==
  IF i >= d.size THEN arr
  ELSE SelfAppendLoop([arr EXCEPT ![(d.e + i) % d.capacity] =
                                     arr[(d.b + i) % d.capacity]],
                      d, i + 1)

\* A += A with the copy loop reading through the b the object had before
\* reallocate
PlusEqSelf_staleBegin(d) ==
  IF Empty(d) THEN d
  ELSE LET totalSize == d.size + d.size
           g == IF totalSize > d.capacity THEN reallocate(d, totalSize) ELSE d
       IN [g EXCEPT !.array = SelfAppendLoop(g.array, [g EXCEPT !.b = d.b], 0),
                    !.size = totalSize,
                    !.e = (g.e + g.size) % g.capacity]

\* Deque::operator+=(const Deque& rhs) with rhs the object itself
PlusEqSelf(d) ==
  IF Empty(d) THEN d
  ELSE LET totalSize == d.size + d.size
           g == IF totalSize > d.capacity THEN reallocate(d, totalSize) ELSE d
       IN [g EXCEPT !.array = SelfAppendLoop(g.array, g, 0),
                    !.size = totalSize,
                    !.e = (g.e + g.size) % g.capacity]

\* Deque::operator+(const Deque& rhs) const
Plus(d, rhs) == PlusEq(DequeCopy(d), rhs)

\* the swap loop written without the temporary: the second store reads
\* the slot the first store has just overwritten
RECURSIVE SwapLoop_noTemp(_, _, _, _)
SwapLoop_noTemp(arr, d, i, j) ==
  IF i < j
  THEN LET pi == (d.b + i) % d.capacity
           pj == (d.b + j) % d.capacity
       IN SwapLoop_noTemp([arr EXCEPT ![pi] = arr[pj]], d, i + 1, j - 1)
  ELSE arr

\* the two-index swap loop of reverse and operator~
RECURSIVE SwapLoop(_, _, _, _)
SwapLoop(arr, d, i, j) ==
  IF i < j
  THEN LET pi == (d.b + i) % d.capacity
           pj == (d.b + j) % d.capacity
       IN SwapLoop([arr EXCEPT ![pi] = arr[pj], ![pj] = arr[pi]],
                   d, i + 1, j - 1)
  ELSE arr

\* reverse() with the upper index of the swap loop started at size
reverse_fromSize(d) ==
  IF d.size > 1 THEN [d EXCEPT !.array = SwapLoop(d.array, d, 0, d.size)]
  ELSE d

\* Deque::reverse()
reverse(d) ==
  IF d.size > 1 THEN [d EXCEPT !.array = SwapLoop(d.array, d, 0, d.size - 1)]
  ELSE d

\* operator~ with the upper index of the swap loop started at size
Flip_fromSize(d) ==
  LET flipped == DequeCopy(d) IN
  [flipped EXCEPT !.array = SwapLoop(flipped.array, flipped, 0, d.size)]

\* Deque::operator~() const
Flip(d) ==
  LET flipped == DequeCopy(d) IN
  [flipped EXCEPT !.array = SwapLoop(flipped.array, flipped, 0, d.size - 1)]

\* a store through int& operator[](pos), for pos in range
StoreAt(d, pos, val) ==
  [d EXCEPT !.array = [d.array EXCEPT ![(d.b + pos) % d.capacity] = val]]

\* ---- the reference double-ended queue: a plain list --------------------
RefPopBack(s) == IF s = <<>> THEN s ELSE SubSeq(s, 1, Len(s) - 1)
RefPopFront(s) == IF s = <<>> THEN s ELSE Tail(s)
RefBack(s) == IF s = <<>> THEN 0 ELSE s[Len(s)]
RefFront(s) == IF s = <<>> THEN 0 ELSE s[1]
RefReverse(s) == [i \in 1..Len(s) |-> s[Len(s) + 1 - i]]

\* ---- the other Deque objects of the program --------------------------
\* The right-hand sides of copies, assignments and concatenations: each the
\* state of an object after a short run of calls (default; from an empty
\* sequence; from sequences; wrapped and full; wrapped with free slots;
\* popped at the front after construction; pushed and popped empty).
Operands ==
  << Deque,
     DequeFrom(<<>>),
     DequeFrom(<<1>>),
     DequeFrom(<<2, 1>>),
     Push_front(Push_back(Deque, 1), 2),
     Pop_back(Push_front(Push_back(Push_back(Deque, 1), 2), 2)),
     Pop_front(DequeFrom(<<1, 2>>)),
     Pop_back(Push_back(Deque, 1)) >>
RhsIds == 1..Len(Operands)
Rhs(i) == Operands[i]

\* ---- bookkeeping of the last call ---------------------------------------
NoCall == [op |-> "none", obj |-> 1, arg |-> 0, ret |-> 0, refRet |-> 0,
           threw |-> FALSE, outside |-> FALSE, preSize |-> 0, preCap |-> 0]
\* a push, a pop or a concatenation: the size and capacity it started from
Call(op, k, arg, ret, refRet) ==
  [op |-> op, obj |-> k, arg |-> arg, ret |-> ret, refRet |-> refRet,
   threw |-> FALSE, outside |-> FALSE,
   preSize |-> dq[k].size, preCap |-> dq[k].capacity]
\* any other call
Plain(op, k, arg, ret) == [NoCall EXCEPT !.op = op, !.obj = k, !.arg = arg, !.ret = ret]

\* a push is modelled only while the elements held and the buffer it needs
\* stay within the bounds
PushFits(d) == d.size < MaxSize /\ (d.size < d.capacity \/ GrowTo(d) <= MaxCap)

Push_backAt(k) ==
  \E val \in Val :
    /\ ~halted /\ PushFits(dq[k])
    /\ dq' = [dq EXCEPT ![k] = Push_back(dq[k], val)]
    /\ ref' = [ref EXCEPT ![k] = Append(ref[k], val)]
    /\ last' = [Call("Push_back", k, 0, 0, 0)
                  EXCEPT !.outside = StoreOutside(dq[k])]
    /\ halted' = StoreOutside(dq[k])

\* the other outcome of Push_back's store outside the buffer: the process
\* is terminated inside the call
Push_backFaultAt(k) ==
  \E val \in Val :
    /\ ~halted /\ PushFits(dq[k])
    /\ StoreOutside(dq[k])
    /\ last' = [Call("Push_back", k, 0, 0, 0) EXCEPT !.outside = TRUE]
    /\ halted' = TRUE
    /\ UNCHANGED <<dq, ref>>

\* a third outcome of that store: the word after the buffer of dq[k] is the
\* first slot of the buffer of the other object, which takes the value
Push_backStrayAt(k) ==
  \E val \in Val :
    LET o == 3 - k IN
    /\ ~halted /\ PushFits(dq[k])
    /\ StoreOutside(dq[k])
    /\ dq[o].capacity > 0
    /\ dq' = [dq EXCEPT ![k] = Push_back(dq[k], val),
                        ![o] = [dq[o] EXCEPT !.array =
                                  [dq[o].array EXCEPT ![0] = val]]]
    /\ ref' = [ref EXCEPT ![k] = Append(ref[k], val)]
    /\ last' = [Call("Push_back", k, 0, 0, 0) EXCEPT !.outside = TRUE]
    /\ halted' = TRUE

Push_frontAt(k) ==
  \E val \in Val :
    /\ ~halted /\ PushFits(dq[k])
    /\ dq' = [dq EXCEPT ![k] = Push_front(dq[k], val)]
    /\ ref' = [ref EXCEPT ![k] = <<val>> \o ref[k]]
    /\ last' = Call("Push_front", k, 0, 0, 0)
    /\ UNCHANGED halted

Pop_backAt(k) ==
  /\ ~halted
  /\ dq' = [dq EXCEPT ![k] = Pop_back(dq[k])]
  /\ ref' = [ref EXCEPT ![k] = RefPopBack(ref[k])]
  /\ last' = Call("Pop_back", k, 0, Pop_backRet(dq[k]), RefBack(ref[k]))
  /\ UNCHANGED halted

Pop_frontAt(k) ==
  /\ ~halted
  /\ dq' = [dq EXCEPT ![k] = Pop_front(dq[k])]
  /\ ref' = [ref EXCEPT ![k] = RefPopFront(ref[k])]
  /\ last' = Call("Pop_front", k, 0, Pop_frontRet(dq[k]), RefFront(ref[k]))
  /\ UNCHANGED halted

\* object k is destroyed and constructed anew from a sequence
ConstructAt(k) ==
  \E array_ \in Seqs(MaxInit) :
    /\ ~halted
    /\ dq' = [dq EXCEPT ![k] = DequeFrom(array_)]
    /\ ref' = [ref EXCEPT ![k] = array_]
    /\ last' = Plain("Deque(int*,unsigned)", k, 0, 0)
    /\ UNCHANGED halted

\* object k is destroyed and constructed anew as a copy of rhs
CopyAt(k) ==
  \E i \in RhsIds :
    /\ ~halted
    /\ dq' = [dq EXCEPT ![k] = DequeCopy(Rhs(i))]
    /\ ref' = [ref EXCEPT ![k] = Contents(Rhs(i))]
    /\ last' = Plain("Deque(const Deque&)", k, 0, 0)
    /\ UNCHANGED halted

\* dq[k] = rhs, rhs another object (i > 0) or dq[k] itself (i = 0)
AssignAt(k) ==
  \E i \in RhsIds \cup {0} :
    LET src == IF i = 0 THEN dq[k] ELSE Rhs(i) IN
    /\ ~halted
    /\ dq' = [dq EXCEPT ![k] = Assign(dq[k], src)]
    /\ ref' = [ref EXCEPT ![k] = IF i = 0 THEN ref[k] ELSE Contents(src)]
    /\ last' = Plain("operator=", k, IF i = 0 THEN 0 ELSE 1, 0)
    /\ UNCHANGED halted

ClearAt(k) ==
  /\ ~halted
  /\ dq' = [dq EXCEPT ![k] = Clear(dq[k])]
  /\ ref' = [ref EXCEPT ![k] = <<>>]
  /\ last' = Plain("Clear", k, 0, 0)
  /\ UNCHANGED halted

\* arg: 2 when the call before was a reverse() too, else 1
ReverseAt(k) ==
  /\ ~halted
  /\ dq' = [dq EXCEPT ![k] = reverse(dq[k])]
  /\ ref' = [ref EXCEPT ![k] = RefReverse(ref[k])]
  /\ last' = Plain("reverse", k, IF last.op = "reverse" THEN 2 ELSE 1, 0)
  /\ UNCHANGED halted

\* a read dq[k][pos]
IndexAt(k) ==
  \E pos \in 0..MaxSize :
    /\ ~halted
    /\ last' = IF Throws(dq[k], pos)
               THEN [Plain("operator[]", k, pos, 0) EXCEPT !.threw = TRUE]
               ELSE Plain("operator[]", k, pos, Index(dq[k], pos))
    /\ UNCHANGED <<dq, ref, halted>>

\* a write dq[k][pos] = val
StoreAtAt(k) ==
  \E pos \in 0..MaxSize, val \in Val :
    /\ ~halted
    /\ IF Throws(dq[k], pos)
       THEN /\ last' = [Plain("operator[]=", k, 0, 0) EXCEPT !.threw = TRUE]
            /\ UNCHANGED <<dq, ref>>
       ELSE /\ dq' = [dq EXCEPT ![k] = StoreAt(dq[k], pos, val)]
            /\ ref' = [ref EXCEPT ![k] =
                         IF pos < Len(ref[k])
                         THEN [ref[k] EXCEPT ![pos + 1] = val] ELSE ref[k]]
            /\ last' = Plain("operator[]=", k, 0, 0)
    /\ UNCHANGED halted

\* dq[k] += rhs, rhs another object (i > 0) or dq[k] itself (i = 0)
PlusEqAt(k) ==
  \E i \in RhsIds \cup {0} :
    LET rhs == IF i = 0 THEN dq[k] ELSE Rhs(i) IN
    /\ ~halted
    /\ dq[k].size + rhs.size <= MaxSize
    /\ dq' = [dq EXCEPT ![k] = IF i = 0 THEN PlusEqSelf(dq[k])
                               ELSE PlusEq(dq[k], rhs)]
    /\ ref' = [ref EXCEPT ![k] = ref[k] \o (IF i = 0 THEN ref[k] ELSE Contents(rhs))]
    /\ last' = Call("operator+=", k, i, 0, 0)
    /\ UNCHANGED halted

\* the temporary dq[k] + rhs is built and destroyed
PlusAt(k) ==
  \E i \in RhsIds :
    /\ ~halted
    /\ dq[k].size + Rhs(i).size <= MaxSize
    /\ last' = Plain("operator+", k, i, 0)
    /\ UNCHANGED <<dq, ref, halted>>

\* the temporary ~dq[k] is built and destroyed
FlipAt(k) ==
  /\ ~halted
  /\ last' = Plain("operator~", k, 0, 0)
  /\ UNCHANGED <<dq, ref, halted>>

\* ---- a default-constructed Deque under pushes and pops ------------------
InitDefault ==
  /\ dq = <<Deque, Deque>> /\ ref = <<<<>>, <<>>>>
  /\ last = NoCall /\ halted = FALSE

DoPush_back == Push_backAt(1)
DoPush_front == Push_frontAt(1)
DoPop_back == Pop_backAt(1)
DoPop_front == Pop_frontAt(1)

NextDefault == DoPush_back \/ DoPush_front \/ DoPop_back \/ DoPop_front

SpecDefault == InitDefault /\ [][NextDefault]_vars

\* ---- a Deque built from a sequence, or copied, under pushes and pops ----
InitCtor ==
  /\ \E array_ \in Seqs(MaxInit) \ {<<>>} :
       \/ /\ dq = <<DequeFrom(array_), Deque>>
          /\ last = [NoCall EXCEPT !.op = "Deque(int*,unsigned)"]
          /\ ref = <<array_, <<>>>>
       \/ \E i \in RhsIds :
          LET src == Rhs(i) IN
            /\ Contents(src) = array_
            /\ dq = <<DequeCopy(src), src>>
            /\ last = [NoCall EXCEPT !.op = "Deque(const Deque&)"]
            /\ ref = <<array_, array_>>
  /\ halted = FALSE

DoPush_backFault == Push_backFaultAt(1)
DoPush_backStray == Push_backStrayAt(1)

NextCtor ==
  \/ DoPush_back \/ DoPush_backFault \/ DoPush_backStray \/ DoPush_front
  \/ DoPop_back \/ DoPop_front

SpecCtor == InitCtor /\ [][NextCtor]_vars

\* ---- a copy of another object under the calls that change it ------------
\* dq[2] is the source, dq[1] the copy just constructed from it
InitCopy ==
  /\ \E i \in RhsIds :
       /\ dq = <<DequeCopy(Rhs(i)), Rhs(i)>>
       /\ ref = <<Contents(Rhs(i)), Contents(Rhs(i))>>
  /\ last = [NoCall EXCEPT !.op = "Deque(const Deque&)"]
  /\ halted = FALSE

DoClear == ClearAt(1)
DoReverse == ReverseAt(1)
DoStore == StoreAtAt(1)
DoPlusEq == PlusEqAt(1)

NextCopy ==
  \/ DoPush_back \/ DoPush_backFault \/ DoPush_backStray \/ DoPush_front
  \/ DoPop_back \/ DoPop_front
  \/ DoClear \/ DoReverse \/ DoStore \/ DoPlusEq

SpecCopy == InitCopy /\ [][NextCopy]_vars

\* ---- the example program of the README ----------------------------------
\* main(): deque is dq[1], reversedDeque is dq[2]; the calls follow one
\* another in the written order, so the last call tells where main() is.
\* initialArray is drawn from the arrays of the example's length over the
\* example's values, the example's {1, 2, 3, 4, 5} among them.
ReadmeLen == 5
ReadmeVals == 1..ReadmeLen

InitReadme ==
  /\ \E initialArray \in [1..ReadmeLen -> ReadmeVals] :
       /\ dq = <<DequeFrom(initialArray), Deque>>
       /\ ref = <<initialArray, <<>>>>
  /\ last = [NoCall EXCEPT !.op = "Deque(int*,unsigned)"]
  /\ halted = FALSE

\* deque.Push_back(6)
ReadmePush_back ==
  /\ last.op = "Deque(int*,unsigned)"
  /\ dq' = [dq EXCEPT ![1] = Push_back(dq[1], 6)]
  /\ ref' = [ref EXCEPT ![1] = Append(ref[1], 6)]
  /\ last' = [Call("Push_back", 1, 6, 0, 0)
                EXCEPT !.outside = StoreOutside(dq[1])]
  /\ halted' = StoreOutside(dq[1])

\* deque.Push_front(0)
ReadmePush_front ==
  /\ last.op = "Push_back" /\ ~halted
  /\ dq' = [dq EXCEPT ![1] = Push_front(dq[1], 0)]
  /\ ref' = [ref EXCEPT ![1] = <<0>> \o ref[1]]
  /\ last' = Call("Push_front", 1, 0, 0, 0)
  /\ UNCHANGED halted

\* int poppedFront = deque.Pop_front()
ReadmePop_front ==
  /\ last.op = "Push_front"
  /\ dq' = [dq EXCEPT ![1] = Pop_front(dq[1])]
  /\ ref' = [ref EXCEPT ![1] = RefPopFront(ref[1])]
  /\ last' = Call("Pop_front", 1, 0, Pop_frontRet(dq[1]), RefFront(ref[1]))
  /\ UNCHANGED halted

\* int poppedBack = deque.Pop_back()
ReadmePop_back ==
  /\ last.op = "Pop_front"
  /\ dq' = [dq EXCEPT ![1] = Pop_back(dq[1])]
  /\ ref' = [ref EXCEPT ![1] = RefPopBack(ref[1])]
  /\ last' = Call("Pop_back", 1, 0, Pop_backRet(dq[1]), RefBack(ref[1]))
  /\ UNCHANGED halted

\* deque.reverse()
ReadmeReverse ==
  /\ last.op = "Pop_back"
  /\ dq' = [dq EXCEPT ![1] = reverse(dq[1])]
  /\ ref' = [ref EXCEPT ![1] = RefReverse(ref[1])]
  /\ last' = Plain("reverse", 1, 1, 0)
  /\ UNCHANGED halted

\* WrapBuffer::Deque reversedDeque = ~deque
ReadmeFlip ==
  /\ last.op = "reverse"
  /\ dq' = [dq EXCEPT ![2] = Flip(dq[1])]
  /\ ref' = [ref EXCEPT ![2] = RefReverse(ref[1])]
  /\ last' = Plain("operator~", 1, 0, 0)
  /\ UNCHANGED halted

NextReadme ==
  \/ ReadmePush_back \/ ReadmePush_front \/ ReadmePop_front
  \/ ReadmePop_back \/ ReadmeReverse \/ ReadmeFlip

SpecReadme == InitReadme /\ [][NextReadme]_vars

\* ---- a Deque built by a short run, cleared, then pushed and popped ------
\* the object starts as one of the operand objects or one of them after a
\* Push_front; Clear() is its first call, pushes and pops follow
InitClear ==
  /\ \E i \in RhsIds, val \in Val \cup {0} :
       LET d == IF val = 0 THEN Rhs(i) ELSE Push_front(Rhs(i), val) IN
       /\ dq = <<d, Deque>>
       /\ ref = <<Contents(d), <<>>>>
  /\ last = [NoCall EXCEPT !.op = "built"]
  /\ halted = FALSE

ClearBuilt == last.op = "built" /\ ClearAt(1)
ClearedPush_back == last.op # "built" /\ Push_backAt(1)
ClearedPush_front == last.op # "built" /\ Push_frontAt(1)
ClearedPop_back == last.op # "built" /\ Pop_backAt(1)
ClearedPop_front == last.op # "built" /\ Pop_frontAt(1)

NextClear ==
  \/ ClearBuilt \/ ClearedPush_back \/ ClearedPush_front
  \/ ClearedPop_back \/ ClearedPop_front

SpecClear == InitClear /\ [][NextClear]_vars

\* ---- a Deque under every public operation --------------------------------
Init == InitDefault

DoConstruct == ConstructAt(1)
DoCopy == CopyAt(1)
DoAssign == AssignAt(1)
DoIndex == IndexAt(1)
DoPlus == PlusAt(1)
DoFlip == FlipAt(1)

Next ==
  \/ DoConstruct \/ DoCopy \/ DoAssign
  \/ DoPush_back \/ DoPush_backFault \/ DoPush_front
  \/ DoPop_back \/ DoPop_front
  \/ DoClear \/ DoReverse \/ DoIndex \/ DoStore
  \/ DoPlusEq \/ DoPlus \/ DoFlip

Spec == Init /\ [][Next]_vars

\* ---- properties ---------------------------------------------------------
Pops == {"Pop_back", "Pop_front"}
Pushes == {"Push_back", "Push_front"}

\* C1: from a default-constructed Deque, after every run of pushes and pops
\* the elements read through operator[] at 0..Size()-1 are those of the
\* reference list, and a pop of a non-empty Deque returns the element the
\* reference removes from that end.
C1_DefaultRefinesReference ==
  /\ Contents(dq[1]) = ref[1]
  /\ (last.op \in Pops /\ last.preSize > 0) => last.ret = last.refRet

\* a pop has just taken an element from a buffer holding its elements
\* wrapped around the end
C1_Witness ==
  /\ last.op \in Pops /\ last.preSize = 3 /\ last.ret = 2
  /\ dq[1].b + dq[1].size > dq[1].capacity

\* C2: the same from a Deque built from a sequence of length n >= 1 or
\* copied from a non-empty Deque: after every run of pushes and pops the
\* elements read are those of the reference started with the same elements,
\* and every pop returns what the reference removes.
C2_CtorRefinesReference ==
  /\ Contents(dq[1]) = ref[1]
  /\ last.op \in Pops => last.ret = last.refRet

\* C3: with capacity > 0 the end offset e lies in [0, capacity), it equals
\* (b + count) mod capacity whenever count > 0, and it is 0 right after a
\* construction from n >= 1 elements or a copy of a non-empty Deque.
C3_EndOffset ==
  dq[1].capacity > 0 =>
    /\ dq[1].e \in 0..(dq[1].capacity - 1)
    /\ dq[1].size > 0 => dq[1].e = (dq[1].b + dq[1].size) % dq[1].capacity
    /\ (last.op \in {"Deque(int*,unsigned)", "Deque(const Deque&)"}
          /\ dq[1].size > 0) => dq[1].e = 0

\* C4: Pop_back on an empty Deque, whatever its capacity, returns 0 and
\* leaves b, e, count, capacity and the buffer as they were.
C4_PopBackEmpty ==
  [][(last'.op = "Pop_back" /\ dq[1].size = 0)
       => (dq' = dq /\ last'.ret = 0)]_vars

\* Pop_back has returned from an empty Deque whose capacity (1..3) makes
\* count == capacity/4 hold
C4_Witness ==
  /\ last.op = "Pop_back" /\ last.preSize = 0 /\ last.preCap = 2
  /\ dq[1].capacity = 2 /\ dq[1].b # 0

\* C5: Pop_front on an empty Deque, whatever its capacity, returns 0 and
\* changes neither b, e, count nor Capacity().
C5_PopFrontEmpty ==
  [][(last'.op = "Pop_front" /\ dq[1].size = 0)
       => /\ last'.ret = 0
          /\ dq'[1].b = dq[1].b /\ dq'[1].e = dq[1].e
          /\ dq'[1].size = dq[1].size
          /\ Capacity(dq'[1]) = Capacity(dq[1])]_vars

ConcatOf(x, y) ==
  x.size + y.size <= MaxSize =>
    /\ Contents(Plus(x, y)) = Contents(x) \o Contents(y)
    /\ Plus(x, y).capacity >= Plus(x, y).size
    /\ Contents(PlusEq(x, y)) = Contents(x) \o Contents(y)
ShrinkStep(op, d, d2) ==
  /\ d2.capacity = d.capacity \div 2
  /\ d.capacity \div 2 = 0 =>
       (d2.b = 0 /\ d2.e = 0 /\ d2.size = 0 /\ d2.capacity = 0)
  /\ Contents(d2) = IF op = "Pop_back" THEN RefPopBack(Contents(d))
                    ELSE RefPopFront(Contents(d))
C9_GrowOnPush ==
  [][last'.op \in Pushes
       => LET d == dq[1]
              d2 == dq'[1]
          IN /\ d.size = d.capacity =>
                  /\ d2.capacity = IF d.capacity = 0 THEN 1 ELSE 2 * d.capacity
                  /\ d2.capacity >= d2.size
                  /\ d2.size = d.size + 1
                  /\ last'.op = "Push_back" =>
                       Contents(d2) = Append(Contents(d), ref'[1][Len(ref'[1])])
                  /\ last'.op = "Push_front" =>
                       Contents(d2) = <<ref'[1][1]>> \o Contents(d)
             /\ d.size < d.capacity => d2.capacity = d.capacity]_vars

\* a Push_front has doubled a full buffer of 2 whose elements were wrapped
C9_Witness ==
  /\ last.op = "Push_front" /\ last.preSize = 2 /\ last.preCap = 2
  /\ dq[1].capacity = 4 /\ dq[1].size = 3 /\ Contents(dq[1]) = <<2, 1, 2>>

\* C10: in every state reached through constructors, pushes, pops, Clear,
\* +=, +, reverse, ~ and assignment, 0 <= count <= capacity, for the Deque
\* under test and for the Deques the operators return.
WithinCapacity(d) == 0 <= d.size /\ d.size <= d.capacity
C10_CountWithinCapacity ==
  /\ WithinCapacity(dq[1])
  /\ WithinCapacity(Flip(dq[1]))
  /\ WithinCapacity(DequeCopy(dq[1]))
  /\ \A i \in RhsIds :
       dq[1].size + Rhs(i).size <= MaxSize => WithinCapacity(Plus(dq[1], Rhs(i)))

\* a += has filled a buffer it had to enlarge
C10_Witness ==
  /\ last.op = "operator+=" /\ dq[1].size = 3 /\ dq[1].capacity = 3
  /\ last.preCap < 3

\* C11: a Deque copy-constructed from a source holds the source's elements
\* in order with b == 0 and capacity equal to the source's count, and no
\* call that changes the copy (push, pop, Clear, reverse, +=, a store
\* through operator[]) changes the source's elements, count, capacity, b, e.
C11_CopyIndependent ==
  /\ [](last.op = "Deque(const Deque&)" =>
          /\ Contents(dq[1]) = Contents(dq[2])
          /\ dq[1].b = 0 /\ dq[1].capacity = dq[2].size)
  /\ [][/\ Contents(dq'[2]) = Contents(dq[2])
        /\ dq'[2].size = dq[2].size /\ dq'[2].capacity = dq[2].capacity
        /\ dq'[2].b = dq[2].b /\ dq'[2].e = dq[2].e]_vars

\* C12: for every Deque (empty, of one element, wrapped or not) operator~
\* returns a Deque holding the elements in exactly the reverse order, and
\* the call leaves the Deque's elements, count, capacity, b and e as they
\* were.
C12_FlipReverses ==
  /\ [](/\ Contents(Flip(dq[1])) = RefReverse(Contents(dq[1]))
        /\ \A i \in RhsIds :
             Contents(Flip(Rhs(i))) = RefReverse(Contents(Rhs(i))))
  /\ [][last'.op = "operator~" => dq'[1] = dq[1]]_vars

\* operator~ has just been called on three wrapped elements that do not
\* read the same backwards
C12_Witness ==
  /\ last.op = "operator~" /\ dq[1].size = 3
  /\ dq[1].b + dq[1].size > dq[1].capacity
  /\ Contents(dq[1]) # RefReverse(Contents(dq[1]))

\* C13: for every Deque, two calls of reverse() in a row leave the elements
\* in the order, and the count, capacity, b and e, they had before the first.
C13_ReverseTwice ==
  LET Same(d, r) == /\ Contents(r) = Contents(d) /\ r.size = d.size
                    /\ r.capacity = d.capacity /\ r.b = d.b /\ r.e = d.e
  IN /\ Same(dq[1], reverse(reverse(dq[1])))
     /\ \A i \in RhsIds : Same(Rhs(i), reverse(reverse(Rhs(i))))
     /\ (last.op = "reverse" /\ last.arg = 2) => Contents(dq[1]) = ref[1]

\* the second of two reverse() calls in a row has returned, on three
\* wrapped elements that do not read the same backwards
C13_Witness ==
  /\ last.op = "reverse" /\ last.arg = 2 /\ dq[1].size = 3
  /\ dq[1].b + dq[1].size > dq[1].capacity
  /\ Contents(dq[1]) # RefReverse(Contents(dq[1]))

\* what the README says deque holds after each call of its example
ReadmeDoc(op) ==
  CASE op = "Deque(int*,unsigned)" -> <<1, 2, 3, 4, 5>>
    [] op = "Push_back" -> <<1, 2, 3, 4, 5, 6>>
    [] op = "Push_front" -> <<0, 1, 2, 3, 4, 5, 6>>
    [] op = "Pop_front" -> <<1, 2, 3, 4, 5, 6>>
    [] op = "Pop_back" -> <<1, 2, 3, 4, 5>>
    [] op = "reverse" -> <<5, 4, 3, 2, 1>>
    [] op = "operator~" -> <<5, 4, 3, 2, 1>>
    [] OTHER -> <<>>

\* C14: in the example started from {1,2,3,4,5} (the run in which the
\* reference list holds the documented elements) the Deque holds after
\* each call what the README says: Size() == 5, [0] == 1, [4] == 5 after
\* construction; {1..6} after Push_back(6); {0..6} after Push_front(0);
\* Pop_front() returns 0, Pop_back() returns 6 and {1..5} remain; reverse()
\* gives {5,4,3,2,1}; ~ gives a new Deque {1,2,3,4,5} and leaves the
\* original {5,4,3,2,1}.
C14_ReadmeScenario ==
  ref[1] = ReadmeDoc(last.op) =>
    /\ Contents(dq[1]) = ReadmeDoc(last.op)
    /\ last.op = "Deque(int*,unsigned)" =>
         /\ Size(dq[1]) = 5
         /\ ~Throws(dq[1], 0) /\ Index(dq[1], 0) = 1
         /\ ~Throws(dq[1], 4) /\ Index(dq[1], 4) = 5
    /\ last.op = "Pop_front" => last.ret = 0
    /\ last.op = "Pop_back" => last.ret = 6
    /\ last.op = "operator~" => Contents(dq[2]) = <<1, 2, 3, 4, 5>>

\* the example started from {1,2,3,4,5} has built reversedDeque
C14_Witness ==
  /\ last.op = "operator~" /\ ref[1] = <<5, 4, 3, 2, 1>>
  /\ dq[2].size = 5 /\ dq[1].capacity = 10

\* slot k of d's buffer holds one of d's elements
Live(d, k) == \E i \in 0..(d.size - 1) : (d.b + i) % d.capacity = k

\* C15: reverse() on a Deque holding x0..xk, wrapped or not, leaves it
\* holding xk..x0 with count, capacity, b and e unchanged, writes no slot
\* outside the live range, and changes nothing when count <= 1.
C15_Reverse ==
  [][last'.op = "reverse" =>
       LET d == dq[1]
           d2 == dq'[1]
       IN /\ Contents(d2) = RefReverse(Contents(d))
          /\ d2.size = d.size /\ d2.capacity = d.capacity
          /\ d2.b = d.b /\ d2.e = d.e
          /\ \A k \in DOMAIN d.array : ~Live(d, k) => d2.array[k] = d.array[k]
          /\ d.size <= 1 => d2 = d]_vars

\* reverse() has returned on three wrapped elements, not the same read
\* backwards, in a buffer with a free slot
C15_Witness ==
  /\ last.op = "reverse" /\ dq[1].size = 3 /\ dq[1].capacity = 4
  /\ dq[1].b + dq[1].size > dq[1].capacity
  /\ Contents(dq[1]) # RefReverse(Contents(dq[1]))
  /\ \E k \in DOMAIN dq[1].array : ~Live(dq[1], k)

C16_WitnessEmpty ==
  /\ last.op = "operator+=" /\ last.arg > 0
  /\ Rhs(last.arg).size = 0 /\ last.preSize = 2

\* C17: Clear() on any Deque (the default one of capacity 0, a wrapped one)
\* sets count, b and e to 0, keeps the capacity and writes only slots that
\* held elements; the pushes and pops that follow leave the elements, and
\* return the values, of a list-based queue started empty, and no store
\* falls outside the buffer.
C17_Clear ==
  /\ [](last.op # "built" =>
          /\ Contents(dq[1]) = ref[1]
          /\ ~last.outside
          /\ last.op \in Pops => last.ret = last.refRet)
  /\ [][last'.op = "Clear" =>
          LET d == dq[1]
              d2 == dq'[1]
          IN /\ d2.size = 0 /\ d2.b = 0 /\ d2.e = 0
             /\ d2.capacity = d.capacity
             /\ \A k \in DOMAIN d.array :
                  ~Live(d, k) => d2.array[k] = d.array[k]]_vars

\* after Clear() on a buffer of four slots whose last slot held an element
\* (it reads 0, the third was never written), two pushes and a Pop_front
C17_Witness ==
  /\ last.op = "Pop_front" /\ last.preSize = 2 /\ last.ret = 1
  /\ dq[1].capacity = 4 /\ dq[1].b = 1
  /\ dq[1].array[3] = 0 /\ dq[1].array[2] = Junk

\* C18 as claimed: Push_front(v) on a Deque of capacity 0 leaves capacity
\* 1, v at index 0, b == 0, e == 1 and count == 1.
C18_PushFrontNoStorage ==
  [][(last'.op = "Push_front" /\ dq[1].capacity = 0) =>
       /\ dq'[1].capacity = 1 /\ dq'[1].array[0] = ref'[1][1]
       /\ dq'[1].b = 0 /\ dq'[1].e = 1 /\ dq'[1].size = 1]_vars

\* C18 amended: Push_front(v) on a Deque of capacity 0 grows the buffer to
\* capacity 1 before it tests for a null array, so it leaves capacity 1,
\* v at index 0, b == 0, count == 1 and e == 0, which is (b + count) mod
\* capacity.
C18_PushFrontNoStorageAmended ==
  [][(last'.op = "Push_front" /\ dq[1].capacity = 0) =>
       /\ dq'[1].capacity = 1 /\ dq'[1].array[0] = ref'[1][1]
       /\ Contents(dq'[1]) = <<ref'[1][1]>>
       /\ dq'[1].b = 0 /\ dq'[1].e = 0 /\ dq'[1].size = 1]_vars

\* Push_front has returned on a Deque that had capacity 0
C18_Witness ==
  /\ last.op = "Push_front" /\ last.preCap = 0
  /\ dq[1].capacity = 1 /\ dq[1].size = 1 /\ dq[1].e = 0
  /\ dq[1].array[0] = MaxVal

\* C19: in every state reached through a constructor and any calls, each
\* buffer slot the next call of Push_back, Push_front, Pop_back, Pop_front,
\* Clear, operator+=, reverse, operator~ or reallocate would read or write
\* has an index in [0, capacity) of the buffer it touches, and the last
\* Push_back did not store at array[e] with e == capacity.
C19_InBounds ==
  LET d == dq[1]
      g == Grown(d)
      s == Shrunk(d)
  IN /\ ~last.outside
     /\ g.e \in DOMAIN g.array
     /\ (g.b - 1 + g.capacity) % g.capacity \in DOMAIN g.array
     /\ d.size > 0 =>
          /\ (s.e - 1 + s.capacity) % s.capacity \in DOMAIN s.array
          /\ s.b \in DOMAIN s.array
     /\ \A i \in 0..(d.size - 1) :
          (d.b + i) % d.capacity \in DOMAIN d.array

\* r holds the elements of d twice over
Doubled(d, r) ==
  /\ Contents(r) = Contents(d) \o Contents(d)
  /\ r.size = 2 * d.size

C20_WitnessGrown ==
  /\ last.op = "operator+=" /\ last.arg = 0
  /\ last.preSize = 1 /\ last.preCap = 1
  /\ dq[1].size = 2 /\ dq[1].capacity = 2

====
